---- MODULE Spec2Model ----
(***************************************************************************)
(* Resume RAG pipeline (src/main.py) and its Gradio chat front end        *)
(* (src/app.py).                                                          *)
(*                                                                         *)
(* Text is modelled as a sequence of tokens.  A token is a TLA+ string: a *)
(* whitespace character (" ", "\n") or a word that the code never looks   *)
(* inside ("skills", "python").  Two adjacent word tokens form ONE word,  *)
(* as adjacent letters do ("soft" followed by "skills" is "softskills").   *)
(* No concatenation of word tokens of the alphabets below spells another   *)
(* token or a catalog title.                                               *)
(***************************************************************************)
EXTENDS Integers, Sequences, FiniteSets, TLC

VARIABLES
    tieOrder,        \* how this build's np.argsort orders equal elements
    full_text,       \* ResumeRAG.full_text
    sections,        \* ResumeRAG.sections
    section_vectors, \* ResumeRAG.section_vectors (None until a load completes)
    vectorizer,      \* the fitted state of ResumeRAG.vectorizer
    loaded,          \* history: some load_resume has completed successfully
    ret,             \* outcome of the last call: what it returned or raised
    first,           \* history: the first retrieve since the last load
    between,         \* history: another read-only call ran after `first`
    gen,             \* history: outcome of the last generation call
    history,         \* app.py: value of the chatbot component
    msg,             \* app.py: value of the msg textbox
    summary_output,  \* app.py: value of the summary textbox
    pc,              \* app.py: position in the running event chain
    input            \* argument of the pure function under check

vars == <<tieOrder, full_text, sections, section_vectors, vectorizer, loaded,
          ret, first, between, gen, history, msg, summary_output, pc, input>>

ragVars == <<full_text, sections, section_vectors, vectorizer>>
appVars == <<history, msg, summary_output, pc>>

-----------------------------------------------------------------------------
(* Bounds of the model.                                                    *)

MaxTextLen == 5     \* tokens in a text given to extract_sections
MaxNameLen == 3     \* tokens in a file name given to parse_file
MaxParas == 3       \* paragraphs in a Word document given to load_resume
MaxK == 5           \* largest top_k asked of the retriever
MaxTurns == 2       \* chat turns between two clicks on Clear Chat

-----------------------------------------------------------------------------
(* Strings.                                                                *)

NL == "\n"
SP == " "

\* Characters str.strip() removes (those the alphabets can produce).
Whitespace == {SP, NL, "\t", "\r"}

\* str.lower() on a token.
LowerToken(t) ==
    CASE t = "SKILLS" -> "skills"
      [] t = "Education" -> "education"
      [] t = "Full" -> "full"
      [] t = "Resume" -> "resume"
      [] t = "DOCX" -> "docx"
      [] OTHER -> t

Lower(s) == [i \in 1..Len(s) |-> LowerToken(s[i])]

\* len(s): characters, not tokens.
RECURSIVE StrLen(_)
StrLen(s) == IF s = <<>> THEN 0 ELSE Len(Head(s)) + StrLen(Tail(s))

RECURSIVE LStrip(_)
LStrip(s) ==
    IF s # <<>> /\ Head(s) \in Whitespace THEN LStrip(Tail(s)) ELSE s

RECURSIVE RStrip(_)
RStrip(s) ==
    IF s # <<>> /\ s[Len(s)] \in Whitespace
    THEN RStrip(SubSeq(s, 1, Len(s) - 1)) ELSE s

\* str.strip()
Strip(s) == RStrip(LStrip(s))

\* text.split('\n'): always at least one line; the lines hold no "\n".
RECURSIVE SplitFrom(_, _)
SplitFrom(s, cur) ==
    IF s = <<>> THEN <<cur>>
    ELSE IF Head(s) = NL THEN <<cur>> \o SplitFrom(Tail(s), <<>>)
    ELSE SplitFrom(Tail(s), Append(cur, Head(s)))

Split(s) == SplitFrom(s, <<>>)

\* sep.join(lines)
RECURSIVE Join(_, _)
Join(lines, sep) ==
    IF lines = <<>> THEN <<>>
    ELSE IF Len(lines) = 1 THEN lines[1]
    ELSE lines[1] \o <<sep>> \o Join(Tail(lines), sep)

\* seq[:n] for a sequence (a negative n drops the last -n elements).
Slice(s, n) ==
    IF n >= 0
    THEN SubSeq(s, 1, IF n < Len(s) THEN n ELSE Len(s))
    ELSE SubSeq(s, 1, IF Len(s) + n > 0 THEN Len(s) + n ELSE 0)

Reverse(s) == [i \in 1..Len(s) |-> s[Len(s) + 1 - i]]

\* All sequences over S of length at most n.
SeqsUpTo(S, n) == UNION {[1..m -> S] : m \in 0..n}

-----------------------------------------------------------------------------
(* ResumeParser.                                                           *)

\* The titles SECTION_PATTERNS lists, lower-cased, one token per word.
SECTION_PATTERNS ==
    { <<"summary">>, <<"professional", SP, "summary">>, <<"profile">>,
      <<"objective">>,
      <<"experience">>, <<"work", SP, "experience">>, <<"employment">>,
      <<"work", SP, "history">>,
      <<"education">>, <<"academic", SP, "background">>,
      <<"skills">>, <<"technical", SP, "skills">>,
      <<"core", SP, "competencies">>, <<"additional">>, <<"technical">>,
      <<"projects">>, <<"key", SP, "projects">>,
      <<"certifications">>, <<"certificates">>, <<"licenses">>,
      <<"awards">>, <<"achievements">>, <<"honors">>,
      <<"publications">>, <<"research">>,
      <<"languages">>, <<"language", SP, "proficiency">>,
      <<"interests">>, <<"hobbies">>,
      <<"references">>, <<"referees">>,
      <<"soft", SP, "skills">> }

\* certifications?\s*&\s*training
CertTraining(s) ==
    /\ Len(s) >= 3
    /\ s[1] \in {"certification", "certifications"}
    /\ s[Len(s)] = "training"
    /\ \E i \in 2..(Len(s) - 1) :
          /\ s[i] = "&"
          /\ \A j \in 2..(Len(s) - 1) : j # i => s[j] \in Whitespace

\* section_pattern.match(line): every alternative is anchored by ^ and $,
\* and the pattern is compiled with re.IGNORECASE.
section_pattern_match(line) ==
    \/ Lower(line) \in SECTION_PATTERNS
    \/ CertTraining(Lower(line))

ResumeSection(title, content, start_idx, end_idx) ==
    [title |-> title, content |-> content,
     start_idx |-> start_idx, end_idx |-> end_idx]

\* The loop of extract_sections from line i (1-based here, i - 1 in the
\* code) on; st holds the locals.  current_section = <<>> stands for None:
\* the code only ever tests its truth, and a recognized title is never "".
RECURSIVE ExtractLoop(_, _, _)
ExtractLoop(lines, i, st) ==
    IF i > Len(lines) THEN st
    ELSE
      LET line_stripped == Strip(lines[i]) IN
      IF section_pattern_match(line_stripped)
      THEN ExtractLoop(lines, i + 1,
             [sections |->
                 IF st.current_section # <<>>
                 THEN Append(st.sections,
                        ResumeSection(st.current_section,
                                      Strip(Join(st.current_content, NL)),
                                      st.start_idx, i - 1))
                 ELSE st.sections,
              current_section |-> line_stripped,
              current_content |-> <<>>,
              start_idx |-> i - 1])
      ELSE IF st.current_section # <<>> /\ line_stripped # <<>>
      THEN ExtractLoop(lines, i + 1,
             [st EXCEPT !.current_content = Append(@, line_stripped)])
      ELSE ExtractLoop(lines, i + 1, st)

\* A slip a splitter could make: the section still open when the text ends
\* is never flushed.
extract_sections_unflushed(text) ==
    ExtractLoop(Split(text), 1,
      [sections |-> <<>>, current_section |-> <<>>,
       current_content |-> <<>>, start_idx |-> 0]).sections

extract_sections(text) ==
    LET lines == Split(text)
        st == ExtractLoop(lines, 1,
                [sections |-> <<>>, current_section |-> <<>>,
                 current_content |-> <<>>, start_idx |-> 0])
    IN IF st.current_section # <<>>
       THEN Append(st.sections,
              ResumeSection(st.current_section,
                            Strip(Join(st.current_content, NL)),
                            st.start_idx, Len(lines)))
       ELSE st.sections

\* Exceptions, by what str(e) starts with.
UnsupportedFormat == "ValueError: Unsupported file format"
NotIndexed == "ValueError: No resume loaded. Call load_resume() first."
DocxError == "PackageNotFoundError: Package not found"
CollaboratorFailure == "HfHubHTTPError"

\* What a call did: returned val (exc = "") or raised exc.
Returned(val) == [exc |-> "", val |-> val]
Raised(exc) == [exc |-> exc, val |-> <<>>]

\* A file: its name, and what python-docx finds in it.
File(name, paras, readable) ==
    [name |-> name, paras |-> paras, readable |-> readable]

\* Path(file_path).suffix of a name without directories: the text from the
\* last "." on, unless that "." starts or ends the name.
Suffix(name) ==
    LET dots == {i \in 1..Len(name) : name[i] = "."} IN
    IF dots = {} THEN <<>>
    ELSE LET p == CHOOSE i \in dots : \A j \in dots : j <= i IN
         IF 1 < p /\ p < Len(name) THEN SubSeq(name, p, Len(name)) ELSE <<>>

\* parse_docx: every paragraph's text followed by "\n"; Document() raises
\* on a file it cannot open.
RECURSIVE ParagraphText(_)
ParagraphText(paras) ==
    IF paras = <<>> THEN <<>>
    ELSE Head(paras) \o <<NL>> \o ParagraphText(Tail(paras))

parse_docx(file) ==
    IF file.readable THEN Returned(ParagraphText(file.paras))
    ELSE Raised(DocxError)

\* A slip: the suffix is compared as written, not lower-cased.
parse_file_case_sensitive(file) ==
    IF Suffix(file.name) \in {<<".", "docx">>, <<".", "doc">>}
    THEN parse_docx(file)
    ELSE Raised(UnsupportedFormat)

parse_file(file) ==
    LET ext == Lower(Suffix(file.name)) IN
    IF ext \in {<<".", "docx">>, <<".", "doc">>}
    THEN parse_docx(file)
    ELSE Raised(UnsupportedFormat)

-----------------------------------------------------------------------------
(* TfidfVectorizer(max_features=1000, ngram_range=(1, 2),                  *)
(* stop_words='english') and cosine_similarity, as main.py uses them.      *)
(* Weights are integers: tf * idf with idf in quarters, rounded.  A score  *)
(* is the pair <<num, den>> standing for num / den = (q.d)^2 / |d|^2, the  *)
(* squared cosine times |q|^2: for one query it orders the sections as the *)
(* cosine does, and it is 0 exactly when the cosine is 0.  The vocabulary  *)
(* of a bounded document stays far below max_features, so the cap never    *)
(* drops a term.                                                           *)

\* Members of sklearn's English stop word list that the alphabets can spell.
StopWords == {<<"the">>, <<"full">>, <<"and">>}

\* Characters that \w does not match.
NonWord == Whitespace \cup {".", "&"}

\* The lower-cased words of a text in order: maximal runs of word
\* characters, of two characters or more (token_pattern \b\w\w+\b).
RECURSIVE WordsFrom(_, _)
WordsFrom(s, cur) ==
    LET done == IF StrLen(cur) >= 2 THEN <<cur>> ELSE <<>> IN
    IF s = <<>> THEN done
    ELSE IF Head(s) \in NonWord THEN done \o WordsFrom(Tail(s), <<>>)
    ELSE WordsFrom(Tail(s), Append(cur, LowerToken(Head(s))))

Analyze(text) ==
    LET kept == SelectSeq(WordsFrom(text, <<>>), LAMBDA w : w \notin StopWords)
    IN  [i \in 1..Len(kept) |-> <<kept[i]>>]
          \o [i \in 1..(Len(kept) - 1) |-> <<kept[i], kept[i + 1]>>]

\* Occurrences of term t in the analyzed text a.
Count(t, a) == Cardinality({i \in 1..Len(a) : a[i] = t})

\* round(4 * (ln((1 + n) / (1 + df)) + 1)): smooth idf, in quarters.
IdfQ(n, df) ==
    LET r == ((1 + n) * 100) \div (1 + df) IN   \* the ratio, in hundredths
    CASE r < 114 -> 4      \* 4 * (ln r + 1) < 4.5
      [] r < 146 -> 5
      [] r < 187 -> 6
      [] r < 240 -> 7
      [] r < 309 -> 8
      [] OTHER -> 9

RECURSIVE Sum(_, _)
Sum(f, S) ==
    IF S = {} THEN 0
    ELSE LET x == CHOOSE y \in S : TRUE IN f[x] + Sum(f, S \ {x})

NotFitted == [fitted |-> FALSE, vocabulary |-> {}, idf |-> <<>>]

\* vectorizer.fit(texts): the vocabulary and each term's idf.
Fit(texts) ==
    LET a == [i \in 1..Len(texts) |-> Analyze(texts[i])]
        vocab == UNION {{a[i][j] : j \in 1..Len(a[i])} : i \in 1..Len(a)}
        df(t) == Cardinality({i \in 1..Len(a) : Count(t, a[i]) > 0})
    IN  [fitted |-> TRUE, vocabulary |-> vocab,
         idf |-> [t \in vocab |-> IdfQ(Len(texts), df(t))]]

\* vectorizer.transform([text])[0]; terms not in the vocabulary are ignored.
Transform(v, text) ==
    LET a == Analyze(text) IN [t \in v.vocabulary |-> Count(t, a) * v.idf[t]]

Dot(q, d) == Sum([t \in DOMAIN q |-> q[t] * d[t]], DOMAIN q)

\* cosine_similarity(q, rows)[0]; a zero vector has similarity 0 to all.
Similarity(q, d) ==
    LET qd == Dot(q, d) IN
    IF qd = 0 THEN <<0, 1>> ELSE <<qd * qd, Dot(d, d)>>

ScoreLess(a, b) == a[1] * b[2] < b[1] * a[2]
ScoreEq(a, b) == a[1] * b[2] = b[1] * a[2]

\* np.argsort(similarities): the indices in ascending order of score.  The
\* default sort is not stable: the order of equal elements is whatever the
\* build's sort makes it, the same on every call.
RECURSIVE ArgSortFrom(_, _, _)
ArgSortFrom(sims, S, ties) ==
    IF S = {} THEN <<>>
    ELSE LET Before(a, b) ==
                 \/ ScoreLess(sims[a], sims[b])
                 \/ /\ ScoreEq(sims[a], sims[b])
                    /\ IF ties = "index order" THEN a < b ELSE a > b
             m == CHOOSE a \in S : \A b \in S \ {a} : Before(a, b)
         IN  <<m>> \o ArgSortFrom(sims, S \ {m}, ties)

argsort(sims) == ArgSortFrom(sims, DOMAIN sims, tieOrder)

\* A slip: the ranking is not cut at top_k.
top_indices_uncut(sims, top_k) == Reverse(argsort(sims))

\* A slip: the ranking is not reversed, so the least similar come first.
top_indices_ascending(sims, top_k) == Slice(argsort(sims), top_k)

\* np.argsort(similarities)[::-1][:top_k]
top_indices(sims, top_k) == Slice(Reverse(argsort(sims)), top_k)

-----------------------------------------------------------------------------
(* ResumeRAG.                                                              *)

None == [isNone |-> TRUE, rows |-> <<>>]

NoCall == [op |-> "__init__", q |-> <<>>, k |-> 0, exc |-> "", val |-> <<>>]
Call(op, q, k, out) ==
    [op |-> op, q |-> q, k |-> k, exc |-> out.exc, val |-> out.val]

NoFirst == [set |-> FALSE, q |-> <<>>, k |-> 0, val |-> <<>>]

FullResume == <<"Full", SP, "Resume">>

\* A slip: the fallback section holds the text stripped.
load_sections_stripped(text) ==
    LET found == extract_sections(text) IN
    IF found = <<>>
    THEN <<ResumeSection(FullResume, Strip(text), 0, StrLen(text))>>
    ELSE found

\* load_resume, the sections: those found, or the one section that holds
\* the whole text when none is found.
load_sections(text) ==
    LET found == extract_sections(text) IN
    IF found = <<>>
    THEN <<ResumeSection(FullResume, text, 0, StrLen(text))>>
    ELSE found

\* texts = [f"{s.title} {s.content}" for s in self.sections]
SectionTexts(secs) ==
    [i \in 1..Len(secs) |-> secs[i].title \o <<SP>> \o secs[i].content]

\* cosine_similarity(query_vector, self.section_vectors)[0]
similarities(query) ==
    LET query_vector == Transform(vectorizer, query) IN
    [i \in 1..Len(section_vectors.rows) |->
        Similarity(query_vector, section_vectors.rows[i])]

\* A slip: the check for a missing index is left out, and the unfitted
\* vectorizer raises its own error.
retrieve_unguarded(query, top_k) ==
    IF ~vectorizer.fitted THEN Raised("NotFittedError")
    ELSE Returned(top_indices(similarities(query), top_k))

\* A slip: the last ranking is reused whatever the query.
retrieve_cached(query, top_k) ==
    IF section_vectors.isNone THEN Raised(NotIndexed)
    ELSE IF ret.op = "retrieve_relevant_sections" /\ ret.exc = ""
    THEN Returned(ret.val)
    ELSE Returned(top_indices(similarities(query), top_k))

\* retrieve_relevant_sections: the indices (from 1) of the sections it
\* returns, in the order it returns them.
retrieve_relevant_sections(query, top_k) ==
    IF section_vectors.isNone THEN Raised(NotIndexed)
    ELSE Returned(top_indices(similarities(query), top_k))

\* What client.chat_completion can do: fail, or reply.
Replies == {<<"reply">>}
GenOutcomes == {Raised(CollaboratorFailure)} \cup {Returned(r) : r \in Replies}

\* A slip: answer_question turns a failure of the generation call into a
\* string of its own.
answer_question_catching(question, top_k, g) ==
    LET relevant_sections == retrieve_relevant_sections(question, top_k) IN
    IF relevant_sections.exc # "" THEN relevant_sections
    ELSE IF g.exc # "" THEN Returned(<<"Sorry, I encountered an error: ", g.exc>>)
    ELSE g

\* answer_question; g is what the generation call does if it is reached.
\* The prompt is a local handed to the collaborator, whose reply is free.
answer_question(question, top_k, g) ==
    LET relevant_sections == retrieve_relevant_sections(question, top_k) IN
    IF relevant_sections.exc # "" THEN relevant_sections ELSE g

\* get_summary; needs no index.
get_summary(g) == g

list_sections == Returned([i \in 1..Len(sections) |-> sections[i].title])

-----------------------------------------------------------------------------
(* Inputs.                                                                 *)

Paragraphs == {<<"skills">>, <<"python">>}
Docs == SeqsUpTo(Paragraphs, MaxParas)

CvDocx == <<"cv", ".", "docx">>
CvPdf == <<"cv", ".", "pdf">>

\* Files for the first load: every document, and two that do not parse.
FirstFiles ==
    {File(CvDocx, d, TRUE) : d \in Docs}
      \cup {File(CvPdf, <<>>, TRUE), File(CvDocx, <<>>, FALSE)}

\* Files for a load over an existing index.
ReloadFiles ==
    {File(CvDocx, <<>>, TRUE),
     File(CvDocx, <<<<"skills">>, <<"python">>, <<"skills">>>>, TRUE),
     File(CvPdf, <<>>, TRUE), File(CvDocx, <<>>, FALSE)}

Queries == {<<"python">>, <<"skills">>}
Ks == 1..MaxK

\* top_k: int = 3, which is also what app.py passes.
DefaultTopK == 3

-----------------------------------------------------------------------------
(* The pipeline as main.py drives it: Spec.                                *)

Constructed ==
    /\ full_text = <<>>
    /\ sections = <<>>
    /\ section_vectors = None
    /\ vectorizer = NotFitted
    /\ loaded = FALSE
    /\ ret = NoCall
    /\ first = NoFirst
    /\ between = FALSE
    /\ gen = "none"

\* The value of the chatbot component: None, or a list of messages.
ChatNone == [isNone |-> TRUE, msgs |-> <<>>]
Chat(msgs) == [isNone |-> FALSE, msgs |-> msgs]

NoApp ==
    /\ history = ChatNone
    /\ msg = <<>>
    /\ summary_output = <<>>
    /\ pc = "idle"

Init ==
    /\ tieOrder \in {"index order", "reverse index order"}
    /\ Constructed
    /\ NoApp
    /\ input = <<>>

\* load_resume after parse_file: the sections of the text and the
\* vectorizer fitted on them.
Index(text) ==
    LET secs == load_sections(text)
        texts == SectionTexts(secs)
        v == Fit(texts)
    IN  [sections |-> secs, vectorizer |-> v,
         section_vectors |->
             [isNone |-> FALSE,
              rows |-> [i \in 1..Len(secs) |-> Transform(v, texts[i])]]]

\* load_resume(file_path)
LoadResume(file) ==
    LET parsed == parse_file(file)
        index == Index(parsed.val)
    IN
    /\ IF parsed.exc # ""
       THEN /\ ret' = Call("load_resume", <<>>, 0, parsed)
            /\ UNCHANGED <<ragVars, loaded, first, between>>
       ELSE IF index.vectorizer.vocabulary = {}
       THEN \* fit_transform raises before anything of the vectorizer is set
            /\ full_text' = parsed.val
            /\ sections' = index.sections
            /\ ret' = Call("load_resume", <<>>, 0,
                           Raised("ValueError: empty vocabulary"))
            /\ UNCHANGED <<section_vectors, vectorizer, loaded, first, between>>
       ELSE /\ full_text' = parsed.val
            /\ sections' = index.sections
            /\ vectorizer' = index.vectorizer
            /\ section_vectors' = index.section_vectors
            /\ loaded' = TRUE
            /\ first' = NoFirst
            /\ between' = FALSE
            /\ ret' = Call("load_resume", <<>>, 0, Returned(<<>>))
    /\ UNCHANGED <<tieOrder, gen, appVars, input>>

Load ==
    \E file \in (IF loaded THEN ReloadFiles ELSE FirstFiles) : LoadResume(file)

\* retrieve_relevant_sections(query, top_k)
Retrieve ==
    \E query \in Queries, top_k \in Ks :
      LET out == retrieve_relevant_sections(query, top_k) IN
      /\ ret' = Call("retrieve_relevant_sections", query, top_k, out)
      /\ first' = IF out.exc = "" /\ ~first.set
                  THEN [set |-> TRUE, q |-> query, k |-> top_k, val |-> out.val]
                  ELSE first
      /\ between' = (between \/ (first.set /\ (first.q # query \/ first.k # top_k)))
      /\ UNCHANGED <<tieOrder, ragVars, loaded, gen, appVars, input>>

\* answer_question(question, top_k)
AnswerQuestion ==
    \E question \in Queries, g \in GenOutcomes :
      LET out == answer_question(question, DefaultTopK, g) IN
      /\ ret' = Call("answer_question", <<>>, 0, out)
      /\ gen' = IF section_vectors.isNone THEN "none"
                ELSE IF g.exc = "" THEN "ok" ELSE "fail"
      /\ between' = (between \/ first.set)
      /\ UNCHANGED <<tieOrder, ragVars, loaded, first, appVars, input>>

\* get_summary()
GetSummary ==
    \E g \in GenOutcomes :
      /\ ret' = Call("get_summary", <<>>, 0, get_summary(g))
      /\ gen' = IF g.exc = "" THEN "ok" ELSE "fail"
      /\ between' = (between \/ first.set)
      /\ UNCHANGED <<tieOrder, ragVars, loaded, first, appVars, input>>

\* list_sections()
ListSections ==
    /\ ret' = Call("list_sections", <<>>, 0, list_sections)
    /\ between' = (between \/ first.set)
    /\ UNCHANGED <<tieOrder, ragVars, loaded, first, gen, appVars, input>>

Next == Load \/ Retrieve \/ AnswerQuestion \/ GetSummary \/ ListSections

Spec == Init /\ [][Next]_vars

-----------------------------------------------------------------------------
(* Properties of the pipeline, checked under Spec.                         *)

Min(a, b) == IF a < b THEN a ELSE b

RetrieveReturned ==
    ret.op = "retrieve_relevant_sections" /\ ret.exc = ""

\* The positions of ret.val and the sections left out of it.
Positions == 1..Len(ret.val)
ReturnedIdx == {ret.val[p] : p \in Positions}
LeftOut == (1..Len(sections)) \ ReturnedIdx

NoHeaderLine(text) ==
    LET lines == Split(text) IN
    \A i \in 1..Len(lines) : ~section_pattern_match(Strip(lines[i]))

\* C2: once load_resume has completed on a text without any recognized
\* header line (the empty text included), there is exactly one section, its
\* title is "Full Resume" and its content is the whole extracted text.
C2_FallbackSection ==
    (loaded /\ NoHeaderLine(full_text)) =>
        /\ Len(sections) = 1
        /\ sections[1].title = FullResume
        /\ sections[1].content = full_text

C2_Witness ==
    /\ ret.op = "load_resume" /\ ret.exc = ""
    /\ NoHeaderLine(full_text)
    /\ Len(Split(full_text)) >= 3
    /\ Len(sections) = 1

\* C3: in the result of retrieve_relevant_sections, sections of equal
\* similarity appear in their order in the section list, and of two equal
\* sections on either side of the cut at top_k the earlier one is returned.
C3_TiesInSectionOrder ==
    RetrieveReturned =>
        LET sims == similarities(ret.q) IN
        /\ \A p1, p2 \in Positions :
              (p1 < p2 /\ ScoreEq(sims[ret.val[p1]], sims[ret.val[p2]]))
                  => ret.val[p1] < ret.val[p2]
        /\ \A a \in ReturnedIdx, b \in LeftOut :
              ScoreEq(sims[a], sims[b]) => a < b

\* C4: for a positive top_k, retrieve_relevant_sections on an index of n
\* sections returns exactly min(top_k, n) sections, none of them twice.
C4_ResultLength ==
    (RetrieveReturned /\ ret.k > 0) =>
        /\ Len(ret.val) = Min(ret.k, Len(sections))
        /\ ReturnedIdx \subseteq 1..Len(sections)
        /\ Cardinality(ReturnedIdx) = Len(ret.val)

C4_Witness ==
    /\ RetrieveReturned
    /\ ret.k = 5
    /\ Len(sections) = 3
    /\ Len(ret.val) = 3

\* C5: within one result the scores never increase, and no section left
\* out scores higher than a returned one.
C5_ScoresDescend ==
    RetrieveReturned =>
        LET sims == similarities(ret.q) IN
        /\ \A p \in Positions :
              p < Len(ret.val) =>
                  ~ScoreLess(sims[ret.val[p]], sims[ret.val[p + 1]])
        /\ \A a \in ReturnedIdx, b \in LeftOut :
              ~ScoreLess(sims[a], sims[b])

C5_Witness ==
    /\ RetrieveReturned
    /\ Len(ret.val) >= 2
    /\ ret.val[1] < ret.val[2]
    /\ LET sims == similarities(ret.q) IN
       ScoreLess(sims[ret.val[2]], sims[ret.val[1]])

\* C6: before any load_resume has completed, retrieve_relevant_sections
\* and answer_question raise the no-resume-loaded error and the text, the
\* sections and the vectors stay as constructed; once a load_resume has
\* completed they never raise it.
C6_NotIndexed ==
    /\ ~loaded =>
          (full_text = <<>> /\ sections = <<>> /\ section_vectors = None)
    /\ ret.op \in {"retrieve_relevant_sections", "answer_question"} =>
          (ret.exc = NotIndexed <=> ~loaded)

C6_Witness ==
    /\ ~loaded
    /\ ret.op = "retrieve_relevant_sections"
    /\ ret.exc = NotIndexed

\* C7 as stated: when the generation call fails, answer_question returns
\* a string and raises nothing.
C7_CaughtInside ==
    (ret.op = "answer_question" /\ gen = "fail") => ret.exc = ""

\* C7 as amended: when the generation call fails, answer_question does
\* not catch the failure: it raises the collaborator's exception to its
\* caller (the chat handlers of app.py are what turn it into a string).
C7_Propagates ==
    (ret.op = "answer_question" /\ gen = "fail")
        => (ret.exc = CollaboratorFailure /\ ret.val = <<>>)

C7_Witness ==
    /\ ret.op = "answer_question"
    /\ gen = "fail"
    /\ loaded
    /\ ret.exc = CollaboratorFailure

\* C8: a retrieve_relevant_sections call returns what the first call with
\* the same query and top_k since the last load returned, whatever calls
\* other than load_resume ran in between.
C8_SameResult ==
    (RetrieveReturned /\ first.set /\ ret.q = first.q /\ ret.k = first.k)
        => ret.val = first.val

C8_Witness ==
    /\ RetrieveReturned /\ first.set /\ ret.q = first.q /\ ret.k = first.k
    /\ between
    /\ Len(sections) >= 2
    /\ ret.val = first.val

-----------------------------------------------------------------------------
(* extract_sections on its own: SpecSplit.                                 *)

SplitTokens == {NL, SP, "skills", "SKILLS", "soft", "python"}
Texts == SeqsUpTo(SplitTokens, MaxTextLen)

InitSplit ==
    /\ tieOrder = "index order"
    /\ Constructed
    /\ NoApp
    /\ input \in Texts

ExtractSections ==
    /\ ret.op = "__init__"
    /\ ret' = Call("extract_sections", <<>>, 0, Returned(extract_sections(input)))
    /\ UNCHANGED <<tieOrder, ragVars, loaded, first, between, gen, appVars, input>>

NextSplit == ExtractSections

SpecSplit == InitSplit /\ [][NextSplit]_vars

\* The lines of the input and those that are recognized headers.
InputLines == Split(input)
HeaderLines ==
    {i \in 1..Len(InputLines) : section_pattern_match(Strip(InputLines[i]))}
FirstHeader == CHOOSE i \in HeaderLines : \A j \in HeaderLines : i <= j

\* The lines after the first header that are neither headers nor blank,
\* in their order.
BodyLines ==
    LET keep(i) == /\ i > FirstHeader
                   /\ i \notin HeaderLines
                   /\ Strip(InputLines[i]) # <<>>
        idx == SelectSeq([i \in 1..Len(InputLines) |-> i], keep)
    IN  [n \in 1..Len(idx) |-> InputLines[idx[n]]]

\* The lines of the sections' contents, section after section.
RECURSIVE ContentLines(_)
ContentLines(secs) ==
    IF secs = <<>> THEN <<>>
    ELSE (IF Head(secs).content = <<>> THEN <<>>
          ELSE Split(Head(secs).content))
           \o ContentLines(Tail(secs))

Extracted == ret.op = "extract_sections" /\ HeaderLines # {}

\* C1 as stated: the contents of the sections, in section order, are
\* exactly the original lines that follow the first header and are neither
\* headers nor blank.
C1_OriginalLines ==
    Extracted => ContentLines(ret.val) = BodyLines

\* C1 as amended: the contents of the sections, in section order, are the
\* lines that follow the first header and are neither headers nor blank,
\* each stripped of its leading and trailing whitespace, in their order,
\* none dropped, repeated or moved.
C1_StrippedLines ==
    Extracted =>
        ContentLines(ret.val) =
            [n \in 1..Len(BodyLines) |-> Strip(BodyLines[n])]

C1_Witness ==
    /\ Extracted
    /\ FirstHeader > 1
    /\ Len(ret.val) = 1
    /\ Len(BodyLines) = 1
    /\ Strip(BodyLines[1]) # BodyLines[1]

-----------------------------------------------------------------------------
(* parse_file on its own: SpecParse.                                       *)

NameTokens == {".", "cv", "docx", "DOCX", "doc", "pdf"}
Names == SeqsUpTo(NameTokens, MaxNameLen)

ParseFiles ==
    {File(n, d, r) : n \in Names, d \in {<<>>, <<<<"skills">>, <<>>>>},
                     r \in BOOLEAN}

InitParse ==
    /\ tieOrder = "index order"
    /\ Constructed
    /\ NoApp
    /\ input \in ParseFiles

ParseFile ==
    /\ ret.op = "__init__"
    /\ ret' = Call("parse_file", <<>>, 0, parse_file(input))
    /\ UNCHANGED <<tieOrder, ragVars, loaded, first, between, gen, appVars, input>>

NextParse == ParseFile

SpecParse == InitParse /\ [][NextParse]_vars

\* The extension of a file name, lower-cased: its last token when a "."
\* that does not start the name comes right before it; "" when there is none.
Extension(name) ==
    IF /\ Len(name) >= 3
       /\ name[Len(name) - 1] = "."
       /\ name[Len(name)] # "."
    THEN LowerToken(name[Len(name)]) ELSE ""

WordExtensions == {"docx", "doc"}
PdfExtensions == {"pdf"}

Parsed == ret.op = "parse_file"

\* C9 as stated: parse_file raises the unsupported-format error when the
\* extension is neither a Word nor a PDF extension, and for a Word or a PDF
\* extension, in any case of letters, it does not, and returns the text of
\* a file it can read.
C9_WordOrPdf ==
    Parsed =>
        /\ ret.exc = UnsupportedFormat
              <=> Extension(input.name) \notin WordExtensions \cup PdfExtensions
        /\ (Extension(input.name) \in WordExtensions \cup PdfExtensions
              /\ input.readable)
              => (ret.exc = "" /\ ret.val = ParagraphText(input.paras))

\* C9 as amended: parse_file raises the unsupported-format error exactly
\* when the extension, in any case of letters, is neither docx nor doc (pdf
\* included), and for docx and doc it returns the paragraphs of a file it
\* can read, each followed by a newline.
C9_WordOnly ==
    Parsed =>
        /\ ret.exc = UnsupportedFormat
              <=> Extension(input.name) \notin WordExtensions
        /\ (Extension(input.name) \in WordExtensions /\ input.readable)
              => (ret.exc = "" /\ ret.val = ParagraphText(input.paras))

C9_Witness ==
    /\ Parsed
    /\ input.name = <<"cv", ".", "DOCX">>
    /\ ret.exc = ""
    /\ ret.val = <<"skills", NL, NL>>

-----------------------------------------------------------------------------
(* The chat front end of app.py: SpecApp.                                  *)

UserMsg(content) == [role |-> "user", content |-> content]
AssistantMsg(content) == [role |-> "assistant", content |-> content]

Sorry(exc) == <<"Sorry, I encountered an error: ", exc>>
SummaryError(exc) == <<"Error generating summary: ", exc>>

\* What the user can type into the textbox, the empty message included.
Messages == Queries \cup {<<>>}

\* The questions of the sample buttons.
sample_questions == {<<"skills">>}

\* Documents the configured resume can be.
AppDocs == {<<>>, <<<<"skills">>, <<"python">>>>}

\* user_message(message, history): the textbox is emptied and the message
\* is appended to the history, a None history counting as empty.
user_message(message, h) ==
    [msg |-> <<>>,
     history |-> Chat(Append(IF h.isNone THEN <<>> ELSE h.msgs,
                             UserMsg(message)))]

\* The content of the last user message, None (shown as str does) if none.
RECURSIVE LastUserContent(_)
LastUserContent(msgs) ==
    IF msgs = <<>> THEN <<"None">>
    ELSE IF msgs[Len(msgs)].role = "user" THEN msgs[Len(msgs)].content
    ELSE LastUserContent(SubSeq(msgs, 1, Len(msgs) - 1))

\* A slip: the call of the pipeline is not guarded.
bot_response_unguarded(h, g) ==
    IF h.isNone \/ h.msgs = <<>> THEN Returned(h)
    ELSE LET out == answer_question(LastUserContent(h.msgs), DefaultTopK, g)
         IN  IF out.exc = ""
             THEN Returned(Chat(Append(h.msgs, AssistantMsg(out.val))))
             ELSE out

\* bot_response(history): the new history.  user_message only ever stores
\* a str, so the conversions of the content leave it as it is.
bot_response(h, g) ==
    IF h.isNone \/ h.msgs = <<>> THEN Returned(h)
    ELSE LET out == answer_question(LastUserContent(h.msgs), DefaultTopK, g)
         IN  IF out.exc = ""
             THEN Returned(Chat(Append(h.msgs, AssistantMsg(out.val))))
             ELSE Returned(Chat(Append(h.msgs, AssistantMsg(Sorry(out.exc)))))

\* chat_with_resume(message, history)
chat_with_resume(message, g) ==
    LET out == answer_question(message, DefaultTopK, g) IN
    IF out.exc = "" THEN out ELSE Returned(Sorry(out.exc))

\* get_summary() of app.py
app_get_summary(g) ==
    LET out == get_summary(g) IN
    IF out.exc = "" THEN out ELSE Returned(SummaryError(out.exc))

UserTurns ==
    Cardinality({i \in 1..Len(history.msgs) : history.msgs[i].role = "user"})

\* The module has been imported: the pipeline is built and the resume of
\* the configuration is loaded (a load that raises ends the process).
InitApp ==
    /\ tieOrder \in {"index order", "reverse index order"}
    /\ \E d \in AppDocs :
         LET text == parse_file(File(CvDocx, d, TRUE)).val
             index == Index(text)
         IN  /\ full_text = text
             /\ sections = index.sections
             /\ vectorizer = index.vectorizer
             /\ section_vectors = index.section_vectors
    /\ loaded = TRUE
    /\ ret = Call("load_resume", <<>>, 0, Returned(<<>>))
    /\ first = NoFirst
    /\ between = FALSE
    /\ gen = "none"
    /\ NoApp
    /\ input = <<>>

Quiet == UNCHANGED <<tieOrder, ragVars, loaded, first, between, input>>

\* The user edits the textbox.
TypeMessage ==
    \E m \in Messages :
      /\ pc = "idle"
      /\ msg' = m
      /\ UNCHANGED <<history, summary_output, pc, ret, gen>>
      /\ Quiet

\* msg.submit and submit_btn.click: user_message, then bot_response.
Submit ==
    /\ pc = "idle"
    /\ UserTurns < MaxTurns
    /\ LET r == user_message(msg, history) IN
       /\ msg' = r.msg
       /\ history' = r.history
    /\ pc' = "bot_response"
    /\ ret' = Call("user_message", <<>>, 0, Returned(<<>>))
    /\ UNCHANGED <<summary_output, gen>>
    /\ Quiet

\* A sample button: the question goes into the textbox, then user_message,
\* then bot_response.
SampleClick ==
    \E question \in sample_questions :
      /\ pc = "idle"
      /\ UserTurns < MaxTurns
      /\ msg' = question
      /\ pc' = "user_message"
      /\ UNCHANGED <<history, summary_output, ret, gen>>
      /\ Quiet

SampleUserMessage ==
    /\ pc = "user_message"
    /\ LET r == user_message(msg, history) IN
       /\ msg' = r.msg
       /\ history' = r.history
    /\ pc' = "bot_response"
    /\ ret' = Call("user_message", <<>>, 0, Returned(<<>>))
    /\ UNCHANGED <<summary_output, gen>>
    /\ Quiet

\* The chain hands the chatbot value on as user_message returned it.
BotResponse ==
    \E g \in GenOutcomes :
      LET out == bot_response(history, g) IN
      /\ pc = "bot_response"
      /\ ret' = Call("bot_response", <<>>, 0,
                     IF out.exc = "" THEN Returned(<<>>) ELSE out)
      /\ history' = IF out.exc = "" THEN out.val ELSE history
      /\ gen' = IF history.isNone \/ history.msgs = <<>> THEN "none"
                ELSE IF g.exc = "" THEN "ok" ELSE "fail"
      /\ pc' = "idle"
      /\ UNCHANGED <<msg, summary_output>>
      /\ Quiet

\* clear_btn.click(lambda: None, None, chatbot)
ClearChat ==
    /\ pc = "idle"
    /\ history' = ChatNone
    /\ ret' = Call("clear", <<>>, 0, Returned(<<>>))
    /\ UNCHANGED <<msg, summary_output, pc, gen>>
    /\ Quiet

\* summary_btn.click(get_summary, None, summary_output)
Summary ==
    \E g \in GenOutcomes :
      /\ pc = "idle"
      /\ summary_output' = app_get_summary(g).val
      /\ ret' = Call("get_summary", <<>>, 0, Returned(<<>>))
      /\ gen' = IF g.exc = "" THEN "ok" ELSE "fail"
      /\ UNCHANGED <<history, msg, pc>>
      /\ Quiet

\* chat_with_resume(message, history), for a caller that uses it.
ChatWithResume ==
    \E m \in Messages, g \in GenOutcomes :
      /\ pc = "idle"
      /\ ret' = Call("chat_with_resume", <<>>, 0, chat_with_resume(m, g))
      /\ gen' = IF g.exc = "" THEN "ok" ELSE "fail"
      /\ UNCHANGED appVars
      /\ Quiet

NextApp ==
    \/ TypeMessage
    \/ Submit
    \/ SampleClick
    \/ SampleUserMessage
    \/ BotResponse
    \/ ClearChat
    \/ Summary
    \/ ChatWithResume

SpecApp == InitApp /\ [][NextApp]_vars

\* C10: every bot_response of a chat turn returns without raising and
\* appends exactly one assistant message to the history, the reply when
\* the generation call succeeds and the apology when it fails, whatever
\* happened in earlier turns, and no step of the chat changes the index.
C10_TurnSurvives ==
    [][ /\ UNCHANGED <<ragVars, tieOrder>>
        /\ (pc = "bot_response" /\ pc' = "idle") =>
              /\ ret'.op = "bot_response" /\ ret'.exc = ""
              /\ ~history'.isNone
              /\ Len(history'.msgs) = Len(history.msgs) + 1
              /\ SubSeq(history'.msgs, 1, Len(history.msgs)) = history.msgs
              /\ LET last == history'.msgs[Len(history'.msgs)] IN
                 /\ last.role = "assistant"
                 /\ gen' = "ok" => last.content \in Replies
                 /\ gen' = "fail" => last.content = Sorry(CollaboratorFailure)
                 /\ gen' \in {"ok", "fail"}
      ]_vars

\* A failed turn followed by an answered one.
C10_Witness ==
    /\ pc = "idle"
    /\ ~history.isNone
    /\ Len(history.msgs) = 4
    /\ history.msgs[2] = AssistantMsg(Sorry(CollaboratorFailure))
    /\ history.msgs[3].role = "user"
    /\ history.msgs[4].role = "assistant"
    /\ history.msgs[4].content \in Replies

====
